---- MODULE Spec2Model ----
(***************************************************************************)
(* Model of src/app_api.py: the plate-recognition pipeline (detect_plate), *)
(* the lazy model loader (cargar_modelos), the registry lookup             *)
(* (consultar_estado_legal) and the report store (reportar_vehiculo /      *)
(* guardar_reporte / verificar_reporte), run by concurrent request threads.*)
(*                                                                         *)
(* Strings that the code inspects character by character (OCR text,        *)
(* plates, sentinels) are sequences of one-character strings.  Formatted   *)
(* status strings (estado) are sequences of tokens, so that concatenation, *)
(* prefix and suffix are what they are on the real strings.                *)
(***************************************************************************)
EXTENDS Integers, Sequences, FiniteSets, TLC

\* ------------------------------------------------------------------ bounds
\* The request threads of the server: handlers of different threads
\* interleave at every access to shared state; a thread serves one request
\* at a time.
Threads == {1, 2}
\* Total number of handler invocations (requests) in one behaviour.
MaxOps == 3
\* Longest recognised text enumerated for the OCR unpacking stage.
MaxTextLen == 3

\* ------------------------------------------------------------- characters
None == "None"

Digits == {"0", "1", "2", "3", "4", "5", "6", "7", "8", "9"}
Lowers == {"a", "b", "c"}
Uppers == {"A", "B", "C", "D", "E", "F", "I", "J", "L", "N", "O", "P", "R", "T"}
\* Python strings are Unicode: "j_caron" is U+01F0, a lower-case letter whose
\* upper case is the two characters "J" and "caron" (U+030C, a combining
\* mark, which is not alphanumeric).
Expanding == {"j_caron"}

\* str.isalnum on one character
IsAlnum(c) == c \in Digits \/ c \in Lowers \/ c \in Uppers \/ c \in Expanding

\* str.upper on one character (the result is a string)
UpperChar(c) ==
    CASE c = "a" -> <<"A">>
      [] c = "b" -> <<"B">>
      [] c = "c" -> <<"C">>
      [] c = "j_caron" -> <<"J", "caron">>
      [] OTHER -> <<c>>

RECURSIVE Upper(_)
\* str.upper
Upper(s) == IF s = <<>> THEN <<>> ELSE UpperChar(Head(s)) \o Upper(Tail(s))

RECURSIVE FilterAlnum(_)
\* "".join(filter(str.isalnum, s))
FilterAlnum(s) ==
    IF s = <<>> THEN <<>>
    ELSE (IF IsAlnum(Head(s)) THEN <<Head(s)>> ELSE <<>>) \o FilterAlnum(Tail(s))

\* "".join(filter(str.isalnum, text)).upper()   (lines 241, 245)
Canonicalize(s) == Upper(FilterAlnum(s))

RECURSIVE Replace(_, _)
\* s.replace(c, "") for a one-character c
Replace(s, c) ==
    IF s = <<>> THEN <<>>
    ELSE (IF Head(s) = c THEN <<>> ELSE <<Head(s)>>) \o Replace(Tail(s), c)

RECURSIVE LStrip(_)
LStrip(s) == IF s # <<>> /\ Head(s) = " " THEN LStrip(Tail(s)) ELSE s

RECURSIVE RStrip(_)
RStrip(s) ==
    IF s # <<>> /\ s[Len(s)] = " " THEN RStrip(SubSeq(s, 1, Len(s) - 1)) ELSE s

\* str.strip
Strip(s) == RStrip(LStrip(s))

\* The two sentinel values of detect_plate (lines 225, 237)
PLACA_NO_ENCONTRADA ==
    <<"P", "L", "A", "C", "A", "_", "N", "O", "_",
      "E", "N", "C", "O", "N", "T", "R", "A", "D", "A">>
OCR_FALLIDO == <<"O", "C", "R", "_", "F", "A", "L", "L", "I", "D", "O">>


\* ---------------------------------------------------------------- inputs
\* request.files (line 211): whether the request has an 'image' part.
\* cv2.imdecode (lines 216-219): it returns None, it (or read/frombuffer)
\* raises, or it returns an image.
Uploads == {"undecodable", "raise", "image"}

\* detector.predict (line 223): raises, or a list of results, each given by
\* the number of boxes it holds (-1: a result without a boxes attribute).
PredictOutcomes ==
    { [raised |-> TRUE, results |-> <<>>] } \cup
    { [raised |-> FALSE, results |-> rs] : rs \in { <<>>, <<0>>, <<1>>, <<0, 2>>, <<-1>> } }

\* Recognised texts the OCR engine may produce.
Texts == { <<>>, <<"-">>, <<"a", "b", "-", "1">>, <<"A", " ", "b", "1">> }

\* One text slot of an OCR result: a str, or some other object.
TextItems == { [isstr |-> TRUE, s |-> x] : x \in Texts } \cup { [isstr |-> FALSE, s |-> <<>>] }

\* ocr.ocr (line 233): raises, or a result.  kind is the shape of the result:
\*   "falsy"  None or an empty list
\*   "dict"   result[0] is a dict; items is its rec_texts list
\*   "list"   result[0] is a list; items is <<result[0][0][1][0]>> when that
\*            path exists and <<>> when unpacking it raises
\*   "other"  result[0] is neither (for instance None)
OcrOutcomes ==
    { [kind |-> k, items |-> <<>>] : k \in {"raise", "falsy", "other", "dict", "list"} } \cup
    { [kind |-> k, items |-> <<i>>] : k \in {"dict", "list"}, i \in TextItems }

\* The recognised texts of the OCR unpacking stage: every string of at most
\* MaxTextLen characters over StageAlphabet, and the two sentinel strings.
StageAlphabet == {"a", "A", "1", "-", " ", "_", "j_caron"}
StageTexts ==
    UNION { [1..n -> StageAlphabet] : n \in 0..MaxTextLen } \cup
    {PLACA_NO_ENCONTRADA, OCR_FALLIDO}

\* The OCR results (line 233) of the unpacking stage
StageResults ==
    { [kind |-> k, items |-> <<>>] : k \in {"falsy", "other", "dict", "list"} } \cup
    { [kind |-> k, items |-> <<[isstr |-> FALSE, s |-> <<>>]>>] : k \in {"dict", "list"} } \cup
    { [kind |-> k, items |-> <<[isstr |-> TRUE, s |-> x]>>] :
        k \in {"dict", "list"}, x \in StageTexts }

\* The embedded JSON payload of the registry (line 176): a dict with some of
\* the keys Make, Model, RegistrationYear, VIN, Use, Owner, ImageUrl.
\* The payload used here lacks VIN and Owner, so that both the given values
\* and the defaults of lines 177-183 are formatted.
VehiclePayload ==
    [Make |-> "Kia", Model |-> "Rio", RegistrationYear |-> "2019", Use |-> "Taxi",
     ImageUrl |-> "img1"]
VehicleEmpty == [k \in {} |-> ""]
Vehicles == {VehiclePayload}

\* requests.get (line 163): raises (timeout, transport), or a response with a
\* status code and a body.  marker: the body holds b"Peru Lookup failed".
\* xml: what ET.fromstring / find / json.loads make of the body.
RegistryOutcomes ==
    { [kind |-> "exception", status_code |-> "0", marker |-> FALSE, xml |-> "malformed",
       vehicle |-> VehicleEmpty] } \cup
    { [kind |-> "response", status_code |-> sc, marker |-> m, xml |-> x, vehicle |-> VehicleEmpty] :
        sc \in {"200", "500"}, m \in BOOLEAN, x \in {"malformed", "noelem", "empty", "badjson"} } \cup
    { [kind |-> "response", status_code |-> sc, marker |-> m, xml |-> "json", vehicle |-> v] :
        sc \in {"200", "500"}, m \in BOOLEAN, v \in Vehicles }

\* request.get_json() of /api/reportar (line 338): None (not JSON), or a dict.
ReportPlacas == { <<" ", "a", "b", "1", " ">>, <<"A", "B", "1">>, <<"a", "b", "-", "1">>, <<" ">> }
ReportDescs == { <<"R">>, <<" ", "H", " ">>, <<" ">> }
ReportBodies ==
    { [json |-> FALSE, placa |-> <<>>, descripcion |-> <<>>] } \cup
    { [json |-> TRUE, placa |-> p, descripcion |-> d] : p \in ReportPlacas, d \in ReportDescs }

\* ------------------------------------------------------- pure functions
\* The first result that has a non-empty boxes collection (lines 228-229);
\* 0 when there is none.
FirstWithBoxes(results) ==
    IF \E i \in 1..Len(results) : results[i] > 0
    THEN CHOOSE i \in 1..Len(results) :
             results[i] > 0 /\ \A j \in 1..(i - 1) : ~(results[j] > 0)
    ELSE 0

\* Lines 237-247: the value of detected_plate after the OCR result has been
\* unpacked.  raised: an exception left the block (to the handler of line 267).
ExtractPlate(result) ==
    CASE result.kind = "dict" ->
           IF result.items # <<>>
           THEN IF result.items[1].isstr
                THEN [raised |-> FALSE, plate |-> Canonicalize(result.items[1].s)]
                ELSE [raised |-> TRUE, plate |-> OCR_FALLIDO]
           ELSE [raised |-> FALSE, plate |-> OCR_FALLIDO]
      [] result.kind = "list" ->
           IF result.items # <<>> /\ result.items[1].isstr
           THEN [raised |-> FALSE, plate |-> Canonicalize(result.items[1].s)]
           ELSE [raised |-> FALSE, plate |-> OCR_FALLIDO]
      [] OTHER -> [raised |-> FALSE, plate |-> OCR_FALLIDO]

\* Line 250: detected_plate in ["PLACA_NO_ENCONTRADA", "OCR_FALLIDO"]
IsSentinel(plate) == plate \in {PLACA_NO_ENCONTRADA, OCR_FALLIDO}

\* Line 253
PlacaLimpia(plate) == Replace(Replace(plate, "-"), " ")

\* dict.get(key, default)
Get(d, k, default) == IF k \in DOMAIN d THEN d[k] ELSE default

\* Line 184: the formatted status string of a parsed vehicle payload.
EstadoOk(v) ==
    <<"OK", "Marca:", Get(v, "Make", "N/A"), "Modelo:", Get(v, "Model", "N/A"),
      "Anio:", Get(v, "RegistrationYear", "N/A"), "Uso:", Get(v, "Use", "Desconocido"),
      "VIN:", Get(v, "VIN", "No disponible"), "Propietario:", Get(v, "Owner", "No disponible")>>

\* A classification that parses the XML before it looks for the marker.
Clasificar_ParseFirst(r) ==
    IF r.kind = "exception" THEN "exception"
    ELSE IF r.status_code # "200" THEN "status"
    ELSE IF r.xml = "malformed" THEN "exception"
    ELSE IF r.marker THEN "marker"
    ELSE IF r.xml \in {"noelem", "empty"} THEN "nodata"
    ELSE IF r.xml = "badjson" THEN "exception"
    ELSE "ok"

\* Lines 163-183: what consultar_estado_legal makes of the registry's answer,
\* before anything is saved.
\*   "status"     non-200 (line 165)        "marker"  Peru Lookup failed (line 167)
\*   "nodata"     no vehicleJson text (174) "ok"      payload parsed (176-184)
\*   "exception"  requests.get, ET.fromstring or json.loads raised (line 190)
Clasificar(r) ==
    IF r.kind = "exception" THEN "exception"
    ELSE IF r.status_code # "200" THEN "status"
    ELSE IF r.marker THEN "marker"
    ELSE IF r.xml = "malformed" THEN "exception"
    ELSE IF r.xml \in {"noelem", "empty"} THEN "nodata"
    ELSE IF r.xml = "badjson" THEN "exception"
    ELSE "ok"

\* The exception text of line 192 for each cause.
CausaExcepcion(r) == IF r.kind = "exception" THEN "e_transport" ELSE "e_parse"

\* The estado of each LookupError outcome (lines 165, 167, 174, 192).
EstadoError(kind, placa, r) ==
    CASE kind = "status" -> <<"ERROR", r.status_code, "Servidor no disponible">>
      [] kind = "marker" -> <<"No se encontro la placa">> \o placa
      [] kind = "nodata" -> <<"No se encontraron datos para">> \o placa
      [] OTHER -> <<"Error conectando con RegCheck:", CausaExcepcion(r)>>

\* Line 192 when guardar_consulta (line 187) is what raised.
EstadoErrorGuardar == <<"Error conectando con RegCheck:", "e_db">>

\* A lookup that also saves a consultation row on the LookupError paths.
ConsultarEstadoLegal_SaveAlways(placa, r, dbok) ==
    LET kind == Clasificar(r) IN
    IF kind = "ok"
    THEN IF dbok
         THEN [estado |-> EstadoOk(r.vehicle), imagen_url |-> Get(r.vehicle, "ImageUrl", None),
               lookup |-> kind, save |-> "ok"]
         ELSE [estado |-> EstadoErrorGuardar, imagen_url |-> None,
               lookup |-> kind, save |-> "fail"]
    ELSE [estado |-> EstadoError(kind, placa, r), imagen_url |-> None,
          lookup |-> kind, save |-> IF dbok THEN "ok" ELSE "fail"]

\* A lookup that returns the success result without calling guardar_consulta.
ConsultarEstadoLegal_NoSave(placa, r, dbok) ==
    LET kind == Clasificar(r) IN
    IF kind = "ok"
    THEN [estado |-> EstadoOk(r.vehicle), imagen_url |-> Get(r.vehicle, "ImageUrl", None),
          lookup |-> kind, save |-> "unset"]
    ELSE [estado |-> EstadoError(kind, placa, r), imagen_url |-> None,
          lookup |-> kind, save |-> "unset"]

\* consultar_estado_legal (lines 160-192): the returned dict, and whether a
\* consultation row was committed.  dbok: the outcome of guardar_consulta's
\* transaction (lines 95-106); it is only run on the "ok" path.
ConsultarEstadoLegal(placa, r, dbok) ==
    LET kind == Clasificar(r) IN
    IF kind = "ok"
    THEN IF dbok
         THEN [estado |-> EstadoOk(r.vehicle), imagen_url |-> Get(r.vehicle, "ImageUrl", None),
               lookup |-> kind, save |-> "ok"]
         ELSE [estado |-> EstadoErrorGuardar, imagen_url |-> None,
               lookup |-> kind, save |-> "fail"]
    ELSE [estado |-> EstadoError(kind, placa, r), imagen_url |-> None,
          lookup |-> kind, save |-> "unset"]

\* Line 258: the suffix appended for a report with this description.
AlertSuffix(descripcion) == <<"ALERTA:">> \o descripcion

\* Lines 339-342 of reportar_vehiculo: both fields are required.
ReporteValido(placa, descripcion) == placa # <<>> /\ descripcion # <<>>

\* A reportes table without the unique constraint on placa.
UniqueViolation_None(rows, placa) == FALSE

\* Reporte.placa is unique (lines 67, 70): an INSERT of a second row with the
\* same placa raises IntegrityError.
UniqueViolation(rows, placa) == \E r \in rows : r.placa = placa

\* A filter that matches plates up to hyphens instead of exactly.
RowsByPlaca_IgnoreHyphen(rows, placa) == { r \in rows : Replace(r.placa, "-") = placa }

\* Line 110: the rows the filter Reporte.placa == placa selects.
RowsByPlaca(rows, placa) == { r \in rows : r.placa = placa }

\* A capability check that only looks at the detector.
CapabilityUnavailable_DetectorOnly(detector, ocr) == detector = 0

\* A capability check that lets a half-initialized pair through.
CapabilityUnavailable_And(detector, ocr) == detector = 0 /\ ocr = 0

\* Line 208
CapabilityUnavailable(detector, ocr) == detector = 0 \/ ocr = 0

\* ------------------------------------------------------------------ state
VARIABLES
    MODELO_DETECTOR,  \* line 139: 0 is None, 1 a constructed YOLO object
    OCR_READER,       \* line 140: likewise
    loads,            \* number of initialization attempts that ran lines 149-150 to the end
    reportes,         \* table reportes: rows [id, placa, descripcion, fecha_reporte]
    consultas,        \* table consultas: rows of class Consulta
    repSeq,           \* id sequence of reportes
    conSeq,           \* id sequence of consultas
    clock,            \* datetime.now(), as the number of rows written so far
    ops,              \* handler invocations started so far
    pc,               \* per thread: the line its handler is at, or "idle"
    loc,              \* per thread: the locals of the running (or last) handler
    resp              \* per thread: the response of the last handler

vars == <<MODELO_DETECTOR, OCR_READER, loads, reportes, consultas, repSeq, conSeq,
          clock, ops, pc, loc, resp>>

Unset == <<"unset">>
Absent == <<"absent">>

NoResp == [code |-> 0, status |-> "none", placa_detectada |-> Absent,
           estado |-> Absent, imagen_url |-> "absent"]

\* A JSON response without the pipeline's fields (lines 209, 212, 220, 269, 342-347).
Plain(code, status) == [NoResp EXCEPT !.code = code, !.status = status]

\* result (line 233) and response (line 163) before they are assigned
NoResult == [kind |-> "unset", items |-> <<>>]
NoResponse ==
    [kind |-> "unset", status_code |-> "0", marker |-> FALSE, xml |-> "unset",
     vehicle |-> VehicleEmpty]

LocInit ==
    [op |-> "none", detector |-> 0, ocr |-> 0,
     image |-> "unset", region |-> "unset",
     detected_plate |-> Unset, placa_limpia |-> Unset,
     lookup |-> "unset", save |-> "unset",
     estado |-> Unset, imagen_url |-> None, alert |-> "unset",
     placa |-> Unset, descripcion |-> Unset, existente |-> 0,
     id |-> 0, observacion |-> Unset,
     result |-> NoResult, response |-> NoResponse,
     stages |-> <<>>]

Init ==
    /\ MODELO_DETECTOR = 0
    /\ OCR_READER = 0
    /\ loads = 0
    /\ reportes = {}
    /\ consultas = {}
    /\ repSeq = 0
    /\ conSeq = 0
    /\ clock = 0
    /\ ops = 0
    /\ pc = [t \in Threads |-> "idle"]
    /\ loc = [t \in Threads |-> LocInit]
    /\ resp = [t \in Threads |-> NoResp]

\* The handler of thread t returns r: its frame, with locals l, is gone.
Return(t, r, l) ==
    /\ pc' = [pc EXCEPT ![t] = "idle"]
    /\ resp' = [resp EXCEPT ![t] = r]
    /\ loc' = [loc EXCEPT ![t] = LocInit]

\* The handler of thread t goes on at line p with locals l.
Goto(t, p, l) ==
    /\ pc' = [pc EXCEPT ![t] = p]
    /\ loc' = [loc EXCEPT ![t] = l]
    /\ UNCHANGED resp

Globals == <<MODELO_DETECTOR, OCR_READER, loads>>
Tables == <<reportes, consultas, repSeq, conSeq, clock>>

\* ---------------------------------------------- cargar_modelos (142-157)
\* POST /api/detect_plate arrives at thread t; line 206 calls cargar_modelos.
detect_plate(t) ==
    /\ pc[t] = "idle"
    /\ ops < MaxOps
    /\ ops' = ops + 1
    /\ pc' = [pc EXCEPT ![t] = "cm146"]
    /\ loc' = [loc EXCEPT ![t] = [LocInit EXCEPT !.op = "detect"]]
    /\ resp' = [resp EXCEPT ![t] = NoResp]
    /\ UNCHANGED <<Globals, Tables>>

\* Line 146, first operand: MODELO_DETECTOR is None
cm146(t) ==
    /\ pc[t] = "cm146"
    /\ Goto(t, IF MODELO_DETECTOR = 0 THEN "cm149" ELSE "cm146b", loc[t])
    /\ UNCHANGED <<Globals, Tables, ops>>

\* Line 146, second operand: OCR_READER is None
cm146b(t) ==
    /\ pc[t] = "cm146b"
    /\ Goto(t, IF OCR_READER = 0 THEN "cm149" ELSE "cm157", loc[t])
    /\ UNCHANGED <<Globals, Tables, ops>>

\* Line 149: MODELO_DETECTOR = YOLO(...), which may raise
cm149(t) ==
    /\ pc[t] = "cm149"
    /\ \E ok \in BOOLEAN :
         /\ MODELO_DETECTOR' = IF ok THEN 1 ELSE MODELO_DETECTOR
         /\ Goto(t, IF ok THEN "cm150" ELSE "cm154", loc[t])
    /\ UNCHANGED <<OCR_READER, loads, Tables, ops>>

\* Line 150: OCR_READER = PaddleOCR(...), which may raise
cm150(t) ==
    /\ pc[t] = "cm150"
    /\ \E ok \in BOOLEAN :
         /\ OCR_READER' = IF ok THEN 1 ELSE OCR_READER
         /\ loads' = IF ok THEN loads + 1 ELSE loads
         /\ Goto(t, IF ok THEN "cm157" ELSE "cm154", loc[t])
    /\ UNCHANGED <<MODELO_DETECTOR, Tables, ops>>

\* Line 154
cm154(t) ==
    /\ pc[t] = "cm154"
    /\ MODELO_DETECTOR' = 0
    /\ Goto(t, "cm155", loc[t])
    /\ UNCHANGED <<OCR_READER, loads, Tables, ops>>

\* Line 155
cm155(t) ==
    /\ pc[t] = "cm155"
    /\ OCR_READER' = 0
    /\ Goto(t, "cm157", loc[t])
    /\ UNCHANGED <<MODELO_DETECTOR, loads, Tables, ops>>

\* Line 157, first element of the returned pair (bound to detector, line 206)
cm157(t) ==
    /\ pc[t] = "cm157"
    /\ Goto(t, "cm157b", [loc[t] EXCEPT !.detector = MODELO_DETECTOR])
    /\ UNCHANGED <<Globals, Tables, ops>>

\* Line 157, second element of the returned pair (bound to ocr, line 206)
cm157b(t) ==
    /\ pc[t] = "cm157b"
    /\ Goto(t, "dp208", [loc[t] EXCEPT !.ocr = OCR_READER])
    /\ UNCHANGED <<Globals, Tables, ops>>

\* ------------------------------------------------ detect_plate (204-269)
Stage(l, names) == [l EXCEPT !.stages = @ \o names]

\* Line 251: the fail response carrying a sentinel
FailSentinel(plate) ==
    [NoResp EXCEPT !.code = 400, !.status = "fail", !.placa_detectada = plate]

\* Lines 208-209: the capability check on the pair cargar_modelos returned
dp208(t) ==
    /\ pc[t] = "dp208"
    /\ IF CapabilityUnavailable(loc[t].detector, loc[t].ocr)
       THEN Return(t, Plain(503, "error"), loc[t])
       ELSE Goto(t, "dp211", loc[t])
    /\ UNCHANGED <<Globals, Tables, ops>>

\* Lines 211-212: the request must carry an 'image' part
dp211(t) ==
    /\ pc[t] = "dp211"
    /\ \E hasfile \in BOOLEAN :
         IF hasfile
         THEN Goto(t, "dp214", loc[t])
         ELSE Return(t, Plain(400, "error"), loc[t])
    /\ UNCHANGED <<Globals, Tables, ops>>

\* Lines 214-222: the upload is read, decoded and resized
dp214(t) ==
    /\ pc[t] = "dp214"
    /\ \E u \in Uploads :
         LET l == Stage([loc[t] EXCEPT !.image = u], <<"decode">>) IN
         CASE u = "undecodable" -> Return(t, Plain(400, "fail"), l)
           [] u = "raise" -> Return(t, Plain(500, "error"), l)
           [] u = "image" -> Goto(t, "dp223", l)
    /\ UNCHANGED <<Globals, Tables, ops>>

\* Lines 223-232, and 250-251 when the loop finds no boxes
dp223(t) ==
    /\ pc[t] = "dp223"
    /\ \E p \in PredictOutcomes :
         LET l == Stage(loc[t], <<"detect">>) IN
         IF p.raised
         THEN Return(t, Plain(500, "error"), [l EXCEPT !.region = "raise"])
         ELSE IF FirstWithBoxes(p.results) = 0
         THEN Return(t, FailSentinel(PLACA_NO_ENCONTRADA),
                     [l EXCEPT !.region = "none", !.detected_plate = PLACA_NO_ENCONTRADA])
         ELSE Goto(t, "dp233", [l EXCEPT !.region = "found"])
    /\ UNCHANGED <<Globals, Tables, ops>>

\* Lines 237-253: the OCR result o is unpacked into detected_plate, the
\* sentinel test is made and placa_limpia is computed
UnpackOcr(t, l, o) ==
    LET e == ExtractPlate(o)
        lp == [l EXCEPT !.detected_plate = e.plate]
    IN
    IF e.raised
    THEN Return(t, Plain(500, "error"), l)
    ELSE IF IsSentinel(e.plate)
    THEN Return(t, FailSentinel(e.plate), lp)
    ELSE Goto(t, "dp254", [lp EXCEPT !.placa_limpia = PlacaLimpia(e.plate)])

\* Lines 233-253: OCR on the region, the plate text, the sentinel test
dp233(t) ==
    /\ pc[t] = "dp233"
    /\ \E o \in OcrOutcomes :
         LET l == Stage(loc[t], <<"ocr">>) IN
         IF o.kind = "raise"
         THEN Return(t, Plain(500, "error"), l)
         ELSE UnpackOcr(t, l, o)
    /\ UNCHANGED <<Globals, Tables, ops>>

\* Lines 237-253 alone, on the OCR result held in result
dp237(t) ==
    /\ pc[t] = "dp237"
    /\ UnpackOcr(t, loc[t], loc[t].result)
    /\ UNCHANGED <<Globals, Tables, ops>>

\* guardar_consulta (lines 94-106): the row added by a committed transaction
NuevaConsulta(id, placa, v, now) ==
    [id |-> id, placa |-> placa, marca |-> Get(v, "Make", "N/A"),
     modelo |-> Get(v, "Model", "N/A"), uso |-> Get(v, "Use", "Desconocido"),
     propietario |-> Get(v, "Owner", "No disponible"),
     imagen_url |-> Get(v, "ImageUrl", None), fecha_consulta |-> now,
     observaciones |-> <<>>]

\* Lines 164-192 and 254: the response r of the registry is classified, the
\* consultation is saved (dbok: the transaction commits) and the result is
\* assigned
LookupStep(t, r, dbok) ==
    LET res == ConsultarEstadoLegal(loc[t].placa_limpia, r, dbok)
        l == [loc[t] EXCEPT !.lookup = res.lookup, !.save = res.save,
                            !.estado = res.estado,
                            !.imagen_url = res.imagen_url]
    IN
    /\ Goto(t, "dp256",
            Stage(l, IF res.save = "unset" THEN <<"lookup">> ELSE <<"lookup", "save">>))
    /\ IF res.save = "ok"
       THEN /\ conSeq' = conSeq + 1
            /\ clock' = clock + 1
            /\ consultas' = consultas \cup
                   {NuevaConsulta(conSeq + 1, loc[t].placa_limpia, r.vehicle, clock + 1)}
       ELSE UNCHANGED <<consultas, conSeq, clock>>

\* Line 254: consultar_estado_legal(placa_limpia), with guardar_consulta
dp254(t) ==
    /\ pc[t] = "dp254"
    /\ \E r \in RegistryOutcomes, dbok \in BOOLEAN : LookupStep(t, r, dbok)
    /\ UNCHANGED <<Globals, reportes, repSeq, ops>>

\* Lines 164-192 alone, on the registry response held in response
dp164(t) ==
    /\ pc[t] = "dp164"
    /\ \E dbok \in BOOLEAN : LookupStep(t, loc[t].response, dbok)
    /\ UNCHANGED <<Globals, reportes, repSeq, ops>>

\* verificar_reporte (lines 108-111): the values .first() may return
VerificarReporte(rows, placa) ==
    IF RowsByPlaca(rows, placa) = {}
    THEN { [found |-> FALSE, descripcion |-> <<>>] }
    ELSE { [found |-> TRUE, descripcion |-> r.descripcion] : r \in RowsByPlaca(rows, placa) }

\* Line 257: if reporte
Truthy(reporte) == reporte.found /\ reporte.descripcion # <<>>

\* Lines 256-265: the alert check and the success response
dp256(t) ==
    /\ pc[t] = "dp256"
    /\ \E dbok \in BOOLEAN :
         LET l == Stage(loc[t], <<"alert">>) IN
         IF ~dbok
         THEN Return(t, Plain(500, "error"), [l EXCEPT !.alert = "raise"])
         ELSE \E reporte \in VerificarReporte(reportes, loc[t].placa_limpia) :
                Return(t,
                       [code |-> 200, status |-> "success",
                        placa_detectada |-> Upper(loc[t].detected_plate),
                        estado |-> IF Truthy(reporte)
                                   THEN loc[t].estado \o AlertSuffix(reporte.descripcion)
                                   ELSE loc[t].estado,
                        imagen_url |-> loc[t].imagen_url],
                       Stage([l EXCEPT !.alert = IF Truthy(reporte) THEN "match" ELSE "none"],
                             <<"respond">>))
    /\ UNCHANGED <<Globals, Tables, ops>>

\* ------------------------------ reportar_vehiculo (335-347), guardar_reporte
\* Lines 338-342: POST /api/reportar arrives at thread t
reportar_vehiculo(t) ==
    /\ pc[t] = "idle"
    /\ ops < MaxOps
    /\ ops' = ops + 1
    /\ \E body \in ReportBodies :
         LET placa == Upper(Strip(body.placa))
             descripcion == Strip(body.descripcion)
             l == [LocInit EXCEPT !.op = "reportar"]
         IN
         IF ~body.json
         THEN Return(t, Plain(500, "error"), l)
         ELSE IF ~ReporteValido(placa, descripcion)
         THEN Return(t, Plain(400, "error"), l)
         ELSE /\ pc' = [pc EXCEPT ![t] = "gr115"]
              /\ loc' = [loc EXCEPT ![t] = [l EXCEPT !.placa = placa, !.descripcion = descripcion]]
              /\ resp' = [resp EXCEPT ![t] = NoResp]
    /\ UNCHANGED <<Globals, Tables>>

\* Line 115: the query for an existing report of the plate
gr115(t) ==
    /\ pc[t] = "gr115"
    /\ \E dbok \in BOOLEAN :
         IF ~dbok
         THEN Return(t, Plain(500, "error"), loc[t])
         ELSE \E ex \in (IF RowsByPlaca(reportes, loc[t].placa) = {} THEN {0}
                         ELSE {r.id : r \in RowsByPlaca(reportes, loc[t].placa)}) :
                Goto(t, "gr116", [loc[t] EXCEPT !.existente = ex])
    /\ UNCHANGED <<Globals, Tables, ops>>

\* Lines 116-126: the update or the insert, and the commit
gr116(t) ==
    /\ pc[t] = "gr116"
    /\ \E dbok \in BOOLEAN :
         IF ~dbok
         THEN /\ Return(t, Plain(500, "error"), loc[t])
              /\ UNCHANGED <<reportes, repSeq, clock>>
         ELSE IF loc[t].existente # 0
         THEN /\ reportes' = { IF r.id = loc[t].existente
                               THEN [r EXCEPT !.descripcion = loc[t].descripcion,
                                              !.fecha_reporte = clock + 1]
                               ELSE r : r \in reportes }
              /\ clock' = clock + 1
              /\ UNCHANGED repSeq
              /\ Return(t, Plain(200, "success"), loc[t])
         ELSE /\ repSeq' = repSeq + 1
              /\ IF UniqueViolation(reportes, loc[t].placa)
                 THEN /\ UNCHANGED <<reportes, clock>>
                      /\ Return(t, Plain(500, "error"), loc[t])
                 ELSE /\ reportes' = reportes \cup
                            { [id |-> repSeq + 1, placa |-> loc[t].placa,
                               descripcion |-> loc[t].descripcion,
                               fecha_reporte |-> clock + 1] }
                      /\ clock' = clock + 1
                      /\ Return(t, Plain(200, "success"), loc[t])
    /\ UNCHANGED <<Globals, consultas, conSeq, ops>>

\* ------------------------------------------------- history administration
\* The <int:id> path parameter of the two administration routes
Ids == {1, 2}

\* PUT /api/observacion/<id> bodies: no JSON object, no "observacion" key
\* (default ""), or a text
ObservacionBodies ==
    { [json |-> FALSE, observacion |-> <<>>] } \cup
    { [json |-> TRUE, observacion |-> o] : o \in { <<>>, <<"n">> } }

\* An update that writes the observation into every row.
ActualizarObservacion_All(rows, id, obs) ==
    { [r EXCEPT !.observaciones = obs] : r \in rows }

\* Lines 131-132: the observation of the row with the given id is replaced
ActualizarObservacion(rows, id, obs) ==
    { IF r.id = id THEN [r EXCEPT !.observaciones = obs] ELSE r : r \in rows }

\* A delete that empties the table.
EliminarConsulta_All(rows, id) == {}

\* Lines 307-308: the row with the given id is deleted
EliminarConsulta(rows, id) == { r \in rows : r.id # id }

\* Lines 290-294 and 129-131: the body is read and the row is queried by id;
\* without a row nothing is written and the answer is still success
actualizar_observacion_api(t) ==
    /\ pc[t] = "idle"
    /\ ops < MaxOps
    /\ ops' = ops + 1
    /\ \E id \in Ids, body \in ObservacionBodies, dbok \in BOOLEAN :
         LET l == [LocInit EXCEPT !.op = "observacion"] IN
         IF ~body.json \/ ~dbok
         THEN Return(t, Plain(500, "error"), l)
         ELSE IF \E r \in consultas : r.id = id
         THEN /\ pc' = [pc EXCEPT ![t] = "ao132"]
              /\ loc' = [loc EXCEPT ![t] = [l EXCEPT !.id = id,
                                                     !.observacion = body.observacion]]
              /\ resp' = [resp EXCEPT ![t] = NoResp]
         ELSE Return(t, Plain(200, "success"), l)
    /\ UNCHANGED <<Globals, Tables>>

\* Lines 131-132 and 295: the assignment and its commit; the UPDATE of a row
\* that was deleted in the meantime matches nothing and raises
ao132(t) ==
    /\ pc[t] = "ao132"
    /\ \E dbok \in BOOLEAN :
         IF ~dbok \/ ~(\E r \in consultas : r.id = loc[t].id)
         THEN /\ Return(t, Plain(500, "error"), loc[t])
              /\ UNCHANGED consultas
         ELSE /\ consultas' = ActualizarObservacion(consultas, loc[t].id, loc[t].observacion)
              /\ Return(t, Plain(200, "success"), loc[t])
    /\ UNCHANGED <<Globals, reportes, repSeq, conSeq, clock, ops>>

\* Lines 301-303: the DELETE request arrives with its id
eliminar_registro(t) ==
    /\ pc[t] = "idle"
    /\ ops < MaxOps
    /\ ops' = ops + 1
    /\ \E id \in Ids :
         /\ pc' = [pc EXCEPT ![t] = "er305"]
         /\ loc' = [loc EXCEPT ![t] = [LocInit EXCEPT !.op = "eliminar", !.id = id]]
         /\ resp' = [resp EXCEPT ![t] = NoResp]
    /\ UNCHANGED <<Globals, Tables>>

\* Lines 305-306 and 310-311: the query by id; 404 without a row
er305(t) ==
    /\ pc[t] = "er305"
    /\ \E dbok \in BOOLEAN :
         IF ~dbok
         THEN Return(t, Plain(500, "error"), loc[t])
         ELSE IF \E r \in consultas : r.id = loc[t].id
         THEN Goto(t, "er307", loc[t])
         ELSE Return(t, Plain(404, "error"), loc[t])
    /\ UNCHANGED <<Globals, Tables, ops>>

\* Lines 307-309: the delete and its commit; the DELETE of a row that was
\* deleted in the meantime matches nothing, which the session either only
\* warns about or raises
er307(t) ==
    /\ pc[t] = "er307"
    /\ \E dbok \in BOOLEAN, stale \in {"warn", "raise"} :
         IF ~dbok \/ (stale = "raise" /\ ~(\E r \in consultas : r.id = loc[t].id))
         THEN /\ Return(t, Plain(500, "error"), loc[t])
              /\ UNCHANGED consultas
         ELSE /\ consultas' = EliminarConsulta(consultas, loc[t].id)
              /\ Return(t, Plain(200, "success"), loc[t])
    /\ UNCHANGED <<Globals, reportes, repSeq, conSeq, clock, ops>>

\* ------------------------------------------------------------------- spec
Next ==
    \E t \in Threads :
        \/ detect_plate(t)
        \/ cm146(t)
        \/ cm146b(t)
        \/ cm149(t)
        \/ cm150(t)
        \/ cm154(t)
        \/ cm155(t)
        \/ cm157(t)
        \/ cm157b(t)
        \/ dp208(t)
        \/ dp211(t)
        \/ dp214(t)
        \/ dp223(t)
        \/ dp233(t)
        \/ dp254(t)
        \/ dp256(t)
        \/ reportar_vehiculo(t)
        \/ gr115(t)
        \/ gr116(t)
        \/ actualizar_observacion_api(t)
        \/ ao132(t)
        \/ eliminar_registro(t)
        \/ er305(t)
        \/ er307(t)

Spec == Init /\ [][Next]_vars

\* ------------------------------------------------------- stage specification
\* The unpacking stage of detect_plate and the classification stage of
\* consultar_estado_legal, each started on every input of its kind: thread 1
\* is inside a detect_plate request, either with an OCR result about to be
\* unpacked or with a registry response about to be classified.
StageLoc ==
    [LocInit EXCEPT !.op = "detect", !.detector = 1, !.ocr = 1,
                    !.image = "image", !.region = "found",
                    !.stages = <<"decode", "detect", "ocr">>]

StagePlates == { <<"A", "B", "1">>, <<"J", "caron">> }

InitStage ==
    /\ MODELO_DETECTOR = 1
    /\ OCR_READER = 1
    /\ loads = 1
    /\ reportes = {}
    /\ consultas = {}
    /\ repSeq = 0
    /\ conSeq = 0
    /\ clock = 0
    /\ ops = 1
    /\ resp = [t \in Threads |-> NoResp]
    /\ \/ /\ pc = [t \in Threads |-> IF t = 1 THEN "dp237" ELSE "idle"]
          /\ \E o \in StageResults :
                loc = [t \in Threads |-> IF t = 1 THEN [StageLoc EXCEPT !.result = o]
                                         ELSE LocInit]
       \/ /\ pc = [t \in Threads |-> IF t = 1 THEN "dp164" ELSE "idle"]
          /\ \E p \in StagePlates, r \in RegistryOutcomes :
                loc = [t \in Threads |->
                         IF t = 1 THEN [StageLoc EXCEPT !.detected_plate = p,
                                                        !.placa_limpia = PlacaLimpia(p),
                                                        !.response = r]
                         ELSE LocInit]

NextStage == \E t \in Threads : dp237(t) \/ dp164(t)

SpecStage == InitStage /\ [][NextStage]_vars

\* ----------------------------------------------------------------- claims
IsPrefix(a, b) == Len(a) <= Len(b) /\ SubSeq(b, 1, Len(a)) = a
EndsWith(s, suf) == Len(suf) <= Len(s) /\ SubSeq(s, Len(s) - Len(suf) + 1, Len(s)) = suf
HasAlert(estado) == \E i \in 1..Len(estado) : estado[i] = "ALERTA:"
LookupErrors == {"status", "marker", "nodata", "exception"}

\* C1: a request whose plate was recognised and whose registry lookup failed
\* (non-200, marker, no data, exception) is answered 200 with status success,
\* the error text in estado and a null imagen_url, never with an HTTP error.
C1_LookupFailureIsSuccess ==
    [][\A t \in Threads :
          (pc[t] = "dp256" /\ pc'[t] = "idle" /\ loc[t].lookup \in LookupErrors)
          => /\ resp'[t].code = 200
             /\ resp'[t].status = "success"
             /\ IsPrefix(loc[t].estado, resp'[t].estado)
             /\ resp'[t].imagen_url = None]_vars

\* C2: an OCR text that is empty after filtering ends the request as
\* OcrFailure: no request holds an empty plate at the registry lookup or at
\* the alert check, and no success response carries an empty plate.
C2_EmptyTextIsOcrFailure ==
    \A t \in Threads :
        /\ loc[t].detected_plate = <<>> => pc[t] \notin {"dp254", "dp256"}
        /\ resp[t].status = "success" => resp[t].placa_detectada # <<>>

\* C3: when the registry lookup succeeded and saving the consultation record
\* failed, consultar_estado_legal still returns the success status string and
\* the image URL of the parsed payload.
C3_SaveFailureNotVisible ==
    \A t \in Threads :
        (loc[t].lookup = "ok" /\ loc[t].save = "fail")
        => \E v \in Vehicles :
              /\ loc[t].estado = EstadoOk(v)
              /\ loc[t].imagen_url = Get(v, "ImageUrl", None)

\* C4: at most one initialization attempt of cargar_modelos completes and
\* writes the shared handles, under any interleaving of requests.
C4_AtMostOneLoad == loads <= 1

PipelinePcs == {"dp211", "dp214", "dp223", "dp233", "dp254", "dp256"}

\* C5: no request is at a pipeline stage holding a handle pair with a null
\* detector or a null OCR reader; a request that got such a pair from
\* cargar_modelos is answered 503.
C5_NoStageWithNullHandle ==
    [][\A t \in Threads :
          /\ pc'[t] \in PipelinePcs => (loc'[t].detector # 0 /\ loc'[t].ocr # 0)
          /\ (pc[t] = "dp208" /\ pc'[t] # "dp208"
                /\ (loc[t].detector = 0 \/ loc[t].ocr = 0))
             => (pc'[t] = "idle" /\ resp'[t].code = 503)]_vars

\* C5 witness: cargar_modelos has returned a pair with exactly one null handle.
C5_Witness ==
    \E t \in Threads : pc[t] = "dp208" /\ loc[t].detector # loc[t].ocr

\* C6: the report store holds at most one entry per plate after every step,
\* and a report that succeeds for a plate that has an entry adds no entry and
\* overwrites that entry's description and timestamp.
C6_OneReportPerPlate ==
    [][/\ \A r1, r2 \in reportes' : r1.placa = r2.placa => r1 = r2
       /\ \A t \in Threads :
            (pc[t] = "gr116" /\ pc'[t] = "idle" /\ resp'[t].code = 200
               /\ \E r \in reportes : r.placa = loc[t].placa)
            => /\ Cardinality(reportes') = Cardinality(reportes)
               /\ \E r \in reportes' :
                    /\ r.placa = loc[t].placa
                    /\ r.descripcion = loc[t].descripcion
                    /\ r.fecha_reporte = clock'
                    /\ \A old \in reportes : old.fecha_reporte < r.fecha_reporte]_vars

\* C6 witness: two concurrent reports raced on the insert (one id was spent on
\* a rejected row) and a later report overwrote the only entry.
C6_Witness ==
    /\ consultas = {}
    /\ repSeq = 2
    /\ clock = 2
    /\ Cardinality(reportes) = 1

\* C7: a request that passes the alert check with plate p is answered with an
\* estado that ends with the alert suffix of the entry whose plate is exactly
\* p when there is one, and with the lookup's estado without any alert
\* suffix when there is none.
C7_AlertSuffixExactMatch ==
    [][\A t \in Threads :
          (pc[t] = "dp256" /\ pc'[t] = "idle" /\ resp'[t].code = 200)
          => IF \E r \in reportes : r.placa = loc[t].placa_limpia
             THEN \E r \in reportes :
                    /\ r.placa = loc[t].placa_limpia
                    /\ EndsWith(resp'[t].estado, <<"ALERTA:">> \o r.descripcion)
             ELSE /\ resp'[t].estado = loc[t].estado
                  /\ ~HasAlert(resp'[t].estado)]_vars

\* C7 witness: an error estado of the lookup was answered with an alert
\* suffix, while the store also holds an entry for a plate that differs from
\* the recognised one only by a hyphen.
C7_Witness ==
    \E t \in Threads :
        /\ resp[t].code = 200
        /\ HasAlert(resp[t].estado)
        /\ resp[t].estado[1] # "OK"
        /\ \E r \in reportes : r.placa # Replace(r.placa, "-")

\* C8: whatever the outcome of verificar_reporte, the response of a request
\* that reached the alert check has the estado returned by
\* consultar_estado_legal as a prefix and its imagen_url unchanged.
C8_AlertOnlyAnnotates ==
    [][\A t \in Threads :
          (pc[t] = "dp256" /\ pc'[t] = "idle")
          => /\ IsPrefix(loc[t].estado, resp'[t].estado)
             /\ resp'[t].imagen_url = loc[t].imagen_url]_vars

NoRepeat(s) == \A i, j \in 1..Len(s) : s[i] = s[j] => i = j

\* C9: a request that ends at the decode, detection or OCR stage is answered
\* 400 with status fail and has written no consultation record; an OCR text
\* that is empty after filtering ends the request there; no stage runs twice.
C9_TerminalFailuresShortCircuit ==
    [][\A t \in Threads :
          /\ (pc[t] \in {"dp214", "dp223", "dp233"} /\ pc'[t] = "idle")
             => (resp'[t].code = 400 /\ resp'[t].status = "fail" /\ consultas' = consultas)
          /\ loc'[t].detected_plate = <<>> => pc'[t] \notin {"dp254", "dp256"}
          /\ NoRepeat(loc'[t].stages)]_vars

\* C10: whenever the detector yields no usable region (predict raises, or no
\* result has boxes) the response is 400, status fail, with the sentinel
\* PLACA_NO_ENCONTRADA.
C10_NoRegionIsNotFound ==
    [][\A t \in Threads :
          (pc[t] = "dp223" /\ pc'[t] = "idle")
          => resp'[t] = FailSentinel(PLACA_NO_ENCONTRADA)]_vars

\* C12: an upload that does not decode as an image, whether the decoder
\* returns no image or raises, is answered 400 with status fail.
C12_DecodeFailureIs400 ==
    [][\A t \in Threads :
          (pc[t] = "dp214" /\ pc'[t] = "idle") => resp'[t] = Plain(400, "fail")]_vars

CargarPcs == {"cm146", "cm146b", "cm149", "cm150", "cm154", "cm155", "cm157", "cm157b"}

\* C13: no stage has run when the capability check is made, and a request
\* whose pair has a null handle is answered 503 there, with no stage run and
\* no table written in that step.
C13_UnavailableBeforeAnyStage ==
    [][\A t \in Threads :
          /\ pc'[t] \in CargarPcs \cup {"dp208"} => loc'[t].stages = <<>>
          /\ (pc[t] = "dp208" /\ pc'[t] # "dp208"
                /\ (loc[t].detector = 0 \/ loc[t].ocr = 0))
             => /\ pc'[t] = "idle"
                /\ resp'[t] = Plain(503, "error")
                /\ loc[t].stages = <<>>
                /\ UNCHANGED Tables]_vars

\* C13 witness: a request has been answered 503.
C13_Witness == \E t \in Threads : resp[t].code = 503

Count(s, x) == Cardinality({i \in 1..Len(s) : s[i] = x})

\* C14: a call of consultar_estado_legal that parses a vehicle payload
\* attempts exactly one save, of a record for its plate; a call that ends in
\* a LookupError attempts none and adds no record; and no other step adds a
\* consultation record.
C14_RecordIffLookupOk ==
    [][LET added == { r \in consultas' : r.id \notin { q.id : q \in consultas } } IN
       /\ \A t \in Threads :
            (pc[t] = "dp254" /\ pc'[t] = "dp256")
            => IF loc'[t].lookup = "ok"
               THEN /\ Count(loc'[t].stages, "save") = 1
                    /\ loc'[t].save \in {"ok", "fail"}
                    /\ Cardinality(added) = IF loc'[t].save = "ok" THEN 1 ELSE 0
                    /\ \A r \in added : r.placa = loc[t].placa_limpia
               ELSE /\ Count(loc'[t].stages, "save") = 0
                    /\ loc'[t].save = "unset"
                    /\ added = {}
       /\ added # {} => \E t \in Threads :
                           pc[t] = "dp254" /\ pc'[t] = "dp256" /\ loc'[t].lookup = "ok"]_vars

\* C14 witness: a record has been written while another lookup ended in a
\* LookupError.
C14_Witness ==
    /\ consultas # {}
    /\ \E t \in Threads : pc[t] = "dp256" /\ loc[t].lookup \in LookupErrors

\* C15 (as stated): the consultation record is persisted after the alert
\* cross-check, so no request is at the alert check with its save already made.
C15_PersistedAfterAlert ==
    \A t \in Threads : pc[t] = "dp256" => Count(loc[t].stages, "save") = 0

\* C15 (amended): a request answered 200 has run decode, detect, ocr and
\* lookup once each in this order before its alert check and response, with
\* the save made inside the lookup exactly when the payload was parsed.
C15_StageOrder ==
    [][\A t \in Threads :
          (pc[t] = "dp256" /\ pc'[t] = "idle" /\ resp'[t].code = 200)
          => loc[t].stages = IF loc[t].lookup = "ok"
                             THEN <<"decode", "detect", "ocr", "lookup", "save">>
                             ELSE <<"decode", "detect", "ocr", "lookup">>]_vars

\* C15 witness: a request whose payload was parsed and saved was answered 200.
C15_Witness ==
    /\ consultas # {}
    /\ \E t \in Threads : resp[t].code = 200 /\ resp[t].estado[1] = "OK"

\* C19: every stored report has a plate key in canonical form (uppercase,
\* alphanumeric characters only).
C19_ReportKeyCanonical == \A r \in reportes : Canonicalize(r.placa) = r.placa

\* C18: a step of any handler other than the two administration writes only
\* adds consultation records; the write of actualizar_observacion changes
\* nothing but the observaciones of the record with its id; the write of
\* eliminar_registro removes nothing but the record with its id; and
\* eliminar_registro asked for an id without a record answers 404 (or 500 when
\* the query fails) and removes nothing.
C18_ConsultasFrame ==
    [][/\ (\A t \in Threads : ~(pc[t] \in {"ao132", "er307"} /\ pc'[t] = "idle"))
          => consultas \subseteq consultas'
       /\ \A t \in Threads :
            /\ (pc[t] = "ao132" /\ pc'[t] = "idle")
               => /\ Cardinality(consultas') = Cardinality(consultas)
                  /\ \A r \in consultas :
                        \/ r \in consultas'
                        \/ /\ r.id = loc[t].id
                           /\ [r EXCEPT !.observaciones = loc[t].observacion] \in consultas'
            /\ (pc[t] = "er307" /\ pc'[t] = "idle")
               => /\ consultas' \subseteq consultas
                  /\ \A r \in consultas \ consultas' : r.id = loc[t].id
            /\ (pc[t] = "er305" /\ pc'[t] # "er305"
                  /\ ~(\E r \in consultas : r.id = loc[t].id))
               => /\ pc'[t] = "idle"
                  /\ resp'[t] \in {Plain(404, "error"), Plain(500, "error")}
                  /\ consultas' = consultas]_vars

\* C18 witness: of two consultation records one has had its observation
\* written and the other is as the pipeline appended it.
C18_Witness ==
    /\ Cardinality(consultas) = 2
    /\ \E r \in consultas : r.observaciones # <<>>
    /\ \E r \in consultas : r.observaciones = <<>>

\* An OCR result that holds a recognised text: a str in the first text slot.
TextRead(o) == o.kind \in {"dict", "list"} /\ o.items # <<>> /\ o.items[1].isstr

\* C11: when a region was found and the OCR result has no text span, or
\* unpacking it raises (its first text slot is not a str), in either shape,
\* the request is answered 400 fail with the sentinel OCR_FALLIDO.
C11_UnpackFailureIsOcrFallido ==
    [][\A t \in Threads :
          (pc[t] = "dp237" /\ pc'[t] # "dp237" /\ ~TextRead(loc[t].result))
          => /\ pc'[t] = "idle"
             /\ resp'[t] = FailSentinel(OCR_FALLIDO)]_vars

\* C16: the plate computed from a recognised text is a fixed point of
\* canonicalization, and of the hyphen/space stripping of line 253.
C16_CanonicalizeIdempotent ==
    \A t \in Threads :
        pc[t] = "dp254"
        => /\ Canonicalize(loc[t].detected_plate) = loc[t].detected_plate
           /\ PlacaLimpia(loc[t].detected_plate) = loc[t].detected_plate

\* C17 (as stated): every call that received a response returns exactly one
\* of four outcomes, by precedence: status error, not-found, no-data, success.
C17_FourOutcomes ==
    \A t \in Threads :
        (pc[t] = "dp256" /\ loc[t].response.kind = "response")
        => LET r == loc[t].response
               p == loc[t].placa_limpia
           IN loc[t].estado =
                IF r.status_code # "200"
                THEN <<"ERROR", r.status_code, "Servidor no disponible">>
                ELSE IF r.marker THEN <<"No se encontro la placa">> \o p
                ELSE IF r.xml \in {"noelem", "empty"}
                THEN <<"No se encontraron datos para">> \o p
                ELSE EstadoOk(r.vehicle)

\* C17 (amended): the precedence is status error, then not-found (whatever
\* the XML), then no-data, then success; and a fifth outcome, the connection
\* error, is returned when the request raised, when the body is not well
\* formed XML or its JSON does not parse, and when the save raised.
C17_Precedence ==
    \A t \in Threads :
        (pc[t] = "dp256" /\ loc[t].response.kind # "unset")
        => LET r == loc[t].response
               p == loc[t].placa_limpia
               e == loc[t].estado
               conn(c) == <<"Error conectando con RegCheck:", c>>
           IN IF r.kind = "exception" THEN e = conn("e_transport")
              ELSE IF r.status_code # "200"
              THEN e = <<"ERROR", r.status_code, "Servidor no disponible">>
              ELSE IF r.marker THEN e = <<"No se encontro la placa">> \o p
              ELSE IF r.xml \in {"malformed", "badjson"} THEN e = conn("e_parse")
              ELSE IF r.xml \in {"noelem", "empty"}
              THEN e = <<"No se encontraron datos para">> \o p
              ELSE e \in {EstadoOk(r.vehicle), conn("e_db")}

\* C17 witness: a 200 response whose body holds the marker and is not well
\* formed XML was classified as not-found.
C17_Witness ==
    \E t \in Threads :
        /\ pc[t] = "dp256"
        /\ loc[t].response.kind = "response"
        /\ loc[t].response.status_code = "200"
        /\ loc[t].response.marker
        /\ loc[t].response.xml = "malformed"
        /\ loc[t].lookup = "marker"

\* C20: the canonical form of a recognised text is never a sentinel, and the
\* sentinel test, when it is reached, answers 400 exactly when OCR failed,
\* that is when no text was read or the text is empty after canonicalization.
C20_SentinelTestExact ==
    [][\A t \in Threads :
          (pc[t] = "dp237" /\ (pc'[t] = "dp254" \/ resp'[t].code = 400))
          => LET o == loc[t].result
                 failed == ~TextRead(o) \/ Canonicalize(o.items[1].s) = <<>>
             IN /\ TextRead(o) => ~IsSentinel(Canonicalize(o.items[1].s))
                /\ (pc'[t] = "idle" /\ resp'[t].code = 400) <=> failed]_vars

====
